---------------------------- MODULE Spec2Model ----------------------------
(***************************************************************************)
(* A model of src/lib/mixer/MultirotorMixer/MultirotorMixer.cpp: the       *)
(* desaturation engine, the multirotor mixing policies, the tilt-rotor     *)
(* allocation (mix_vtol), the cycle entry point (mix) with its slew-rate   *)
(* limiter, the constructors and the text parser (from_text).              *)
(*                                                                         *)
(* Numbers.  A C float x is modelled by the integer round(x * U), U =      *)
(* 10000 (the fixed-point scale from_text itself divides by).  Products    *)
(* and quotients are rounded to the nearest unit, symmetrically about 0,   *)
(* so that odd functions stay odd.  On inputs whose products and quotients *)
(* are whole units the arithmetic is exact.                                *)
(***************************************************************************)
EXTENDS Integers, Sequences, FiniteSets, TLC

\* one unit of the fixed-point representation: 1.0f is U
U == 10000

\* ------------------------------------------------------------------------
\* fixed-point arithmetic (the float operators *, / and the libm calls)
\* ------------------------------------------------------------------------

Abs(x) == IF x < 0 THEN -x ELSE x

Sgn(x) == IF x < 0 THEN -1 ELSE IF x > 0 THEN 1 ELSE 0

\* n / d on integers, rounded to nearest, halves away from zero
RDiv(n, d) == Sgn(n) * Sgn(d) * ((2 * Abs(n) + Abs(d)) \div (2 * Abs(d)))

\* the float product a * b
MulParts(xh, xl, yh, yl) ==
    xh * yh * U + xh * yl + xl * yh + RDiv(xl * yl, U)

Mul(a, b) ==
    Sgn(a) * Sgn(b)
    * MulParts(Abs(a) \div U, Abs(a) % U, Abs(b) \div U, Abs(b) % U)

\* the float quotient a / b, b # 0
DivFrac(r, y) ==
    IF r < 100000 THEN RDiv(r * U, y) ELSE RDiv(r * 100, RDiv(y, 100))

Div(a, b) ==
    Sgn(a) * Sgn(b)
    * ((Abs(a) \div Abs(b)) * U + DivFrac(Abs(a) % Abs(b), Abs(b)))

\* an array given element by element, with its elements computed once
Array(f) == f @@ <<>>

\* math::constrain
constrain(val, min_val, max_val) ==
    IF val < min_val THEN min_val ELSE IF val > max_val THEN max_val ELSE val

\* ------------------------------------------------------------------------
\* DesaturationEngine.  Arrays are functions on 0 .. n-1, as in the source.
\* ------------------------------------------------------------------------

\* FLT_EPSILON (1.19e-7) is below one unit: |d| < FLT_EPSILON iff d = 0
FLT_EPSILON == 1

\* a bound check that takes every output as violating
DesatBoundUnchecked(acc, violated, k, flag) ==
    [k_min |-> IF k < acc.k_min THEN k ELSE acc.k_min,
     k_max |-> IF k > acc.k_max THEN k ELSE acc.k_max,
     flags |-> acc.flags \cup {flag}]

\* the body of one of the two bound checks of compute_desaturation_gain: the
\* accumulator acc = [k_min, k_max, flags] after the gain k that brings the
\* output back to the bound it violates
DesatBound(acc, violated, k, flag) ==
    IF violated
      THEN [k_min |-> IF k < acc.k_min THEN k ELSE acc.k_min,
            k_max |-> IF k > acc.k_max THEN k ELSE acc.k_max,
            flags |-> acc.flags \cup {flag}]
      ELSE acc

\* one iteration of the loop of compute_desaturation_gain
DesatStep(acc, d, o, min_output, max_output) ==
    IF Abs(d) < FLT_EPSILON THEN acc
    ELSE DesatBound(DesatBound(acc, o < min_output, Div(min_output - o, d),
                               "motor_neg"),
                    o > max_output, Div(max_output - o, d), "motor_pos")

RECURSIVE DesatLoop(_, _, _, _, _, _, _)
DesatLoop(i, n, acc, desaturation_vector, outputs, min_output, max_output) ==
    IF i >= n THEN acc
    ELSE DesatLoop(i + 1, n,
                   DesatStep(acc, desaturation_vector[i], outputs[i],
                             min_output, max_output),
                   desaturation_vector, outputs, min_output, max_output)

\* compute_desaturation_gain: [gain, flags], flags the updated sat_status
\* a gain that drops k_min
DesatGainUpper(acc) == [gain |-> acc.k_max, flags |-> acc.flags]

\* return k_min + k_max
DesatGain(acc) == [gain |-> acc.k_min + acc.k_max, flags |-> acc.flags]

compute_desaturation_gain(n, desaturation_vector, outputs, sat_status, min_output, max_output) ==
    DesatGain(DesatLoop(0, n, [k_min |-> 0, k_max |-> 0, flags |-> sat_status],
                        desaturation_vector, outputs, min_output, max_output))

\* outputs[i] += k * desaturation_vector[i], all i
AddScaled(n, outputs, k, desaturation_vector) ==
    Array([i \in 0 .. n - 1 |-> outputs[i] + Mul(k, desaturation_vector[i])])

\* minimize_saturation: [outputs, flags, k1, k2, applied]; k1, k2 and applied
\* record the two gains and whether the corrections were applied
\* a second correction of twice the gain g2
MinimizeSecondTwice(n, desaturation_vector, o1, k1, g2) ==
    [outputs |-> AddScaled(n, o1, 2 * g2.gain, desaturation_vector),
     flags |-> g2.flags, k1 |-> k1, k2 |-> 2 * g2.gain, applied |-> TRUE]

\* the second correction: half the gain g2 computed on the outputs o1 of the
\* first
MinimizeSecond(n, desaturation_vector, o1, k1, g2) ==
    [outputs |-> AddScaled(n, o1, RDiv(g2.gain, 2), desaturation_vector),
     flags |-> g2.flags, k1 |-> k1, k2 |-> RDiv(g2.gain, 2), applied |-> TRUE]

\* the first correction by the gain k1, then the gain on its result
MinimizeFirst(n, desaturation_vector, o1, k1, flags, min_output, max_output) ==
    MinimizeSecond(n, desaturation_vector, o1, k1,
                   compute_desaturation_gain(n, desaturation_vector, o1, flags,
                                             min_output, max_output))

\* minimize_saturation without the reduce_only return
MinimizeFromBoth(n, desaturation_vector, outputs, g1, min_output, max_output, reduce_only) ==
    MinimizeFirst(n, desaturation_vector,
                  AddScaled(n, outputs, g1.gain, desaturation_vector),
                  g1.gain, g1.flags, min_output, max_output)

\* minimize_saturation from its first gain g1 on
MinimizeFrom(n, desaturation_vector, outputs, g1, min_output, max_output, reduce_only) ==
    IF reduce_only /\ g1.gain > 0
      THEN [outputs |-> outputs, flags |-> g1.flags,
            k1 |-> g1.gain, k2 |-> 0, applied |-> FALSE]
      ELSE MinimizeFirst(n, desaturation_vector,
                         AddScaled(n, outputs, g1.gain, desaturation_vector),
                         g1.gain, g1.flags, min_output, max_output)

minimize_saturation(n, desaturation_vector, outputs, sat_status, min_output, max_output, reduce_only) ==
    MinimizeFrom(n, desaturation_vector, outputs,
                 compute_desaturation_gain(n, desaturation_vector, outputs,
                                           sat_status, min_output, max_output),
                 min_output, max_output, reduce_only)

\* ------------------------------------------------------------------------
\* RotorGeometry and the multirotor mixing policies
\* ------------------------------------------------------------------------

Rotor(r, p, y, t) ==
    [roll_scale |-> r, pitch_scale |-> p, yaw_scale |-> y, thrust_scale |-> t]

\* the mock geometry table: the "4x" entry
config_quad_x ==
    Array([i \in 0 .. 3 |->
              CASE i = 0 -> Rotor(-7071,  7071,  U, U)
                [] i = 1 -> Rotor( 7071, -7071,  U, U)
                [] i = 2 -> Rotor( 7071,  7071, -U, U)
                [] i = 3 -> Rotor(-7071, -7071, -U, U)])

\* one column of the rotor table, as minimize_saturation's direction vector
Column(n, rotors, axis) ==
    Array([i \in 0 .. n - 1 |->
              CASE axis = "roll"   -> rotors[i].roll_scale
                [] axis = "pitch"  -> rotors[i].pitch_scale
                [] axis = "yaw"    -> rotors[i].yaw_scale
                [] axis = "thrust" -> rotors[i].thrust_scale])

\* the bounds minimize_saturation takes when a call site passes none
DefaultMinOutput == 0

DefaultMaxOutput == U

\* the widened upper bound of the yaw step (1.15f)
YawMaxOutput == 11500

\* what a minimize_saturation call of a policy leaves: the outputs and the
\* status as the call left them, and axis added to the columns the policy
\* has called minimize_saturation against
Called(m, calls, axis) ==
    [outputs |-> m.outputs, flags |-> m.flags, calls |-> Append(calls, axis)]

\* one minimize_saturation call of a policy: against the column axis, on the
\* outputs and status cur = [outputs, flags, calls] the previous step left
Desaturate(n, rotors, axis, cur, min_output, max_output, reduce_only) ==
    Called(minimize_saturation(n, Column(n, rotors, axis), cur.outputs,
                               cur.flags, min_output, max_output, reduce_only),
           cur.calls, axis)

\* the result of a policy whose last step left m: the outputs, the saturation
\* status, _tmp_array, and the columns minimize_saturation was called
\* against, in call order
Finish(m, tmp) ==
    [outputs |-> m.outputs, flags |-> m.flags, tmp |-> tmp, calls |-> m.calls]

mix_yaw(n, rotors, yaw, outputs, sat_status) ==
    Finish(Desaturate(n, rotors, "thrust",
               Desaturate(n, rotors, "yaw",
                   [outputs |-> Array([i \in 0 .. n - 1 |->
                                   outputs[i] + Mul(yaw, rotors[i].yaw_scale)]),
                    flags |-> sat_status,
                    calls |-> <<>>],
                   0, YawMaxOutput, FALSE),
               0, U, TRUE),
           Column(n, rotors, "thrust"))

\* mix_yaw as the last step of a policy whose earlier steps left cur
ThenYaw(n, rotors, yaw, cur) ==
    [mix_yaw(n, rotors, yaw, cur.outputs, cur.flags)
        EXCEPT !.calls = cur.calls \o @]

mix_airmode_rp(n, rotors, roll, pitch, yaw, thrust, sat_status) ==
    ThenYaw(n, rotors, yaw,
        Desaturate(n, rotors, "thrust",
            [outputs |-> Array([i \in 0 .. n - 1 |->
                            Mul(roll, rotors[i].roll_scale)
                            + Mul(pitch, rotors[i].pitch_scale)
                            + Mul(thrust, rotors[i].thrust_scale)]),
             flags |-> sat_status,
             calls |-> <<>>],
            DefaultMinOutput, DefaultMaxOutput, FALSE))

\* the full mixing followed by the call against the thrust column alone
mix_airmode_rpy_thrust_only(n, rotors, roll, pitch, yaw, thrust, sat_status) ==
    Finish(Desaturate(n, rotors, "thrust",
               [outputs |-> Array([i \in 0 .. n - 1 |->
                               Mul(roll, rotors[i].roll_scale)
                               + Mul(pitch, rotors[i].pitch_scale)
                               + Mul(yaw, rotors[i].yaw_scale)
                               + Mul(thrust, rotors[i].thrust_scale)]),
                flags |-> sat_status,
                calls |-> <<>>],
               DefaultMinOutput, DefaultMaxOutput, FALSE),
           Column(n, rotors, "thrust"))

mix_airmode_rpy(n, rotors, roll, pitch, yaw, thrust, sat_status) ==
    Finish(Desaturate(n, rotors, "yaw",
               Desaturate(n, rotors, "thrust",
                   [outputs |-> Array([i \in 0 .. n - 1 |->
                                   Mul(roll, rotors[i].roll_scale)
                                   + Mul(pitch, rotors[i].pitch_scale)
                                   + Mul(yaw, rotors[i].yaw_scale)
                                   + Mul(thrust, rotors[i].thrust_scale)]),
                    flags |-> sat_status,
                    calls |-> <<>>],
                   DefaultMinOutput, DefaultMaxOutput, FALSE),
               DefaultMinOutput, DefaultMaxOutput, FALSE),
           Column(n, rotors, "yaw"))

mix_airmode_disabled(n, rotors, roll, pitch, yaw, thrust, sat_status) ==
    ThenYaw(n, rotors, yaw,
        Desaturate(n, rotors, "pitch",
            Desaturate(n, rotors, "roll",
                Desaturate(n, rotors, "thrust",
                    [outputs |-> Array([i \in 0 .. n - 1 |->
                                    Mul(roll, rotors[i].roll_scale)
                                    + Mul(pitch, rotors[i].pitch_scale)
                                    + Mul(thrust, rotors[i].thrust_scale)]),
                     flags |-> sat_status,
                     calls |-> <<>>],
                    0, U, TRUE),
                DefaultMinOutput, DefaultMaxOutput, FALSE),
            DefaultMinOutput, DefaultMaxOutput, FALSE))

\* ------------------------------------------------------------------------
\* libm in fixed point: sinf, cosf, atan2f, sqrtf, math::radians
\* ------------------------------------------------------------------------

\* pi/2 and pi, in units
HalfPi == 15708

Pi == 2 * HalfPi

\* math::radians(deg), deg a whole number of degrees
radians(deg) == RDiv(deg * Pi, 180)

\* an angle brought back into [-pi, pi]
Wrap(x) == IF x > Pi THEN x - 2 * Pi ELSE IF x < -Pi THEN x + 2 * Pi ELSE x

\* the sine series x - x^3/3! + x^5/5! - x^7/7! + x^9/9! from the term
\* sign * power / fact of degree k on, power = x^k and x2 = x^2
RECURSIVE SinTerms(_, _, _, _, _, _)
SinTerms(power, x2, k, fact, sign, acc) ==
    IF k > 9 THEN acc
    ELSE SinTerms(Mul(power, x2), x2, k + 2, fact * (k + 1) * (k + 2), -sign,
                  acc + sign * RDiv(power, fact))

\* the sine on [-pi/2, pi/2]
SinSeries(x) == SinTerms(x, Mul(x, x), 1, 1, 1, 0)

\* an angle of [-pi, pi] reflected into [-pi/2, pi/2]
Reflect(x) ==
    IF x > HalfPi THEN Pi - x ELSE IF x < -HalfPi THEN -Pi - x ELSE x

sinf(a) == SinSeries(Reflect(Wrap(a)))

cosf(a) == sinf(Wrap(a) + HalfPi)

\* atan on [0, 1]: pi/4 z + z (1 - z) (0.2447 + 0.0663 z)
AtanUnit(z) == Mul(7854, z) + Mul(Mul(z, U - z), 2447 + Mul(663, z))

\* atan2f; a zero y counts as +0
\* atan2f on the first quadrant
AtanQuadrant(ay, ax) ==
    IF ax = 0 /\ ay = 0 THEN 0
    ELSE IF ax >= ay THEN AtanUnit(Div(ay, ax))
    ELSE HalfPi - AtanUnit(Div(ax, ay))

AtanSigned(y, x, a) ==
    IF y < 0 THEN -(IF x >= 0 THEN a ELSE Pi - a)
    ELSE IF x >= 0 THEN a ELSE Pi - a

atan2f(y, x) == AtanSigned(y, x, AtanQuadrant(Abs(y), Abs(x)))

\* what sqrtf returns for a negative argument
NaN == -1073741824

RECURSIVE ISqrt(_, _, _)
ISqrt(n, lo, hi) ==
    IF lo >= hi THEN lo
    ELSE ISqrt(n,
               IF ((lo + hi + 1) \div 2) * ((lo + hi + 1) \div 2) > n
                 THEN lo ELSE (lo + hi + 1) \div 2,
               IF ((lo + hi + 1) \div 2) * ((lo + hi + 1) \div 2) > n
                 THEN (lo + hi + 1) \div 2 - 1 ELSE hi)

sqrtf(a) == IF a < 0 THEN NaN ELSE ISqrt(a * U, 0, 46340)

\* ------------------------------------------------------------------------
\* TiltrotorAllocation: mix_vtol
\* ------------------------------------------------------------------------

\* platform parameters
h_0 == 150

L_0 == 2900

l_1 == 1575

l_3 == 1050

l_4 == 1050

\* C = C_Q / C_T = 1.99017e-7 / 1.11919e-5
C == 178

d_chi_max == radians(10)

\* aerodynamics
C_La == 586

C_Me == 5560

C_Nr == 556

S == 4266

b == 20000

c_bar == 2000

L_factor == Mul(Mul(C_La, S), b)

M_factor == Mul(Mul(C_Me, S), c_bar)

N_factor == Mul(Mul(C_Nr, S), b)

delta_min == radians(-35)

delta_max == radians(35)

\* denormalisation: T_MAX = 48, M_MAX = 2, AIRSPD_MAX = 40 are whole numbers
T_MAX == 48

chi_MAX == radians(90)

M_MAX == 2

AIRSPD_MAX == 40

\* load inputs and denormalize; ctl[i] is get_control(0, i).  The lower
\* airspeed clamp 1e-8f is below one unit and clamps to 0.
VtolInputs(ctl) ==
    [L       |-> constrain(ctl[0], -U, U) * M_MAX,
     M       |-> constrain(ctl[1], -U, U) * M_MAX,
     N       |-> constrain(ctl[2], -U, U) * M_MAX,
     T       |-> constrain(ctl[3], 0, U) * T_MAX,
     chi_cmd |-> Mul(constrain(ctl[4], -U, U), chi_MAX),
     airspd  |-> constrain(ctl[5], 0, U) * AIRSPD_MAX]

\* constrain(m / m_ * scale, delta_min, delta_max).  With scale = 0 (airspeed
\* at most 4) the product is 0 whatever the quotient, which is finite in
\* float as m_ > 0 there; with scale > 0, m_ is at least a factor times 9.6.
SurfaceDeflection(m, m_, scale) ==
    IF scale = 0 THEN 0
    ELSE constrain(Mul(Div(m, m_), scale), delta_min, delta_max)

\* control surface deflections and the residual moments
VtolResiduals(in, scale, L_, M_, N_) ==
    [scale   |-> scale,
     delta_a |-> SurfaceDeflection(in.L, L_, scale),
     L       |-> in.L - Mul(L_, SurfaceDeflection(in.L, L_, scale)),
     M       |-> in.M - Mul(M_, SurfaceDeflection(in.M, M_, scale)),
     N       |-> in.N - Mul(N_, SurfaceDeflection(in.N, N_, scale))]

VtolEffectiveness(in, q_bar, scale) ==
    VtolResiduals(in, scale, Mul(L_factor, q_bar), Mul(M_factor, q_bar),
                  Mul(N_factor, q_bar))

VtolSurfaces(in) ==
    VtolEffectiveness(in, Mul(Mul(6000, in.airspd), in.airspd),
                      constrain(RDiv(in.airspd - 4 * U, 6), 0, U))

sign_1(i) == IF i >= 2 /\ i <= 5 THEN 1 ELSE -1

sign_2(i) == IF i >= 4 THEN 1 ELSE -1

sign_3(i) == IF i % 4 = 0 \/ (i - 1) % 4 = 0 THEN 1 ELSE -1

\* l_arm = 0.5 (1 + sign_1) l_3 + 0.5 (1 - sign_1) l_4
l_arm(i) == RDiv((1 + sign_1(i)) * l_3, 2) + RDiv((1 - sign_1(i)) * l_4, 2)

\* one entry A_pinv[col + i*5] of the pseudoinverse, from the sines and
\* cosines of chi_cmd and 2 chi_cmd
l_34 == l_3 + l_4

temp1 == 2 * Mul(l_1, l_1) + Mul(l_3, l_4)

temp2 == 2 * temp1 + Mul(l_3, l_3) + Mul(l_4, l_4)

denom_2 == 4 * (Mul(C, C) + Mul(L_0, L_0))

denom_1(c_chi) == temp2 + Mul(Mul(4 * c_chi, l_1), l_34)

A_pinv(i, col, c_chi, s_chi, c_2chi, s_2chi) ==
        IF i % 2 = 0
          THEN CASE col = 0 ->
                      Div(Mul(temp2, c_chi)
                          - Mul(Mul(sign_1(i) * 2 * h_0, l_34), s_chi)
                          + Mul(Mul(4 * l_1, l_34), Mul(c_chi, c_chi)),
                          4 * denom_1(c_chi))
                 [] col = 1 ->
                      -Div(Mul(temp1 + Mul(l_arm(i), l_arm(i)), s_chi) + Mul(Mul(l_1, l_34), s_2chi),
                           2 * denom_1(c_chi))
                 [] col = 2 ->
                      Div(Mul(-sign_2(i) * L_0, s_chi) + Mul(sign_3(i) * C, c_chi),
                          denom_2)
                 [] col = 3 ->
                      Div(Mul(-sign_1(i) * s_chi, l_34), 2 * denom_1(c_chi))
                 [] col = 4 ->
                      Div(Mul(sign_2(i) * L_0, c_chi) + Mul(sign_3(i) * C, s_chi),
                          denom_2)
          ELSE CASE col = 0 ->
                      Div(Mul(temp2, s_chi)
                          + Mul(sign_1(i) * 2 * h_0, Mul(c_chi, l_34) + 2 * l_1)
                          + Mul(Mul(2 * l_1, l_34), s_2chi),
                          4 * denom_1(c_chi))
                 [] col = 1 ->
                      Div(Mul(2 * l_1, l_arm(i))
                          + Mul(temp1 + Mul(l_arm(i), l_arm(i)), c_chi)
                          + Mul(Mul(l_1, l_34), c_2chi),
                          2 * denom_1(c_chi))
                 [] col = 2 ->
                      Div(Mul(sign_2(i) * L_0, c_chi) + Mul(sign_3(i) * C, s_chi),
                          denom_2)
                 [] col = 3 ->
                      Div(sign_1(i) * (2 * l_1 + Mul(l_34, c_chi)), 2 * denom_1(c_chi))
                 [] col = 4 ->
                      Div(Mul(sign_2(i) * L_0, s_chi) - Mul(sign_3(i) * C, c_chi),
                          denom_2)

\* v[i], the pseudoinverse applied to the demand
VtolV(T, L, M, N, c_chi, s_chi, c_2chi, s_2chi) ==
    Array([i \in 0 .. 7 |->
              Mul(Mul(A_pinv(i, 0, c_chi, s_chi, c_2chi, s_2chi), T), s_chi)
              + Mul(Mul(A_pinv(i, 1, c_chi, s_chi, c_2chi, s_2chi), T), c_chi)
              + Mul(A_pinv(i, 2, c_chi, s_chi, c_2chi, s_2chi), L)
              + Mul(A_pinv(i, 3, c_chi, s_chi, c_2chi, s_2chi), M)
              + Mul(A_pinv(i, 4, c_chi, s_chi, c_2chi, s_2chi), N)])

\* scale = constrain(0.25f * (T - 2.0f), 0.0f, 1.0f)
ThrustRamp(T) == constrain(RDiv(T - 2 * U, 4), 0, U)

\* the corrections with the arguments of atan2f exchanged
VtolAnglesSwapped(v, T) ==
    [d_chi_r |-> Mul(ThrustRamp(T), atan2f(v[1] + v[3], v[0] + v[2])),
     d_chi_l |-> Mul(ThrustRamp(T), atan2f(v[5] + v[7], v[4] + v[6]))]

\* the two tilt-angle corrections before the clamp
VtolAngles(v, T) ==
    [d_chi_r |-> Mul(ThrustRamp(T), atan2f(v[0] + v[2], v[1] + v[3])),
     d_chi_l |-> Mul(ThrustRamp(T), atan2f(v[4] + v[6], v[5] + v[7]))]

\* scale thrust to PWM: -1.146746f + sqrtf(0.0821782f + 0.355259f * t)
ThrustToPwm(t) ==
    IF 822 + Mul(3553, t) < 0 THEN NaN ELSE -11467 + sqrtf(822 + Mul(3553, t))

\* the thrust of one rotor from its two components and the correction
RotorThrust(v_s, v_c, d_chi) == Mul(v_s, sinf(d_chi)) + Mul(v_c, cosf(d_chi))

\* the seven outputs from the rotor thrusts t, the tilt angles and delta_a
VtolWrite(t, chi_r, chi_l, delta_a) ==
    Array([i \in 0 .. 6 |->
        CASE i = 0 -> ThrustToPwm(t[1])
          [] i = 1 -> ThrustToPwm(t[2])
          [] i = 2 -> ThrustToPwm(t[3])
          [] i = 3 -> ThrustToPwm(t[4])
          [] i = 4 -> Mul(-9602, chi_l) + 7106
          [] i = 5 -> Mul(9602, chi_r) - 7106
          [] i = 6 -> -Div(2 * delta_a - (delta_max + delta_min),
                           delta_max - delta_min)])

\* the clamp of a correction
ClampCorrection(d_chi) == constrain(d_chi, -d_chi_max, d_chi_max)

\* the rotor thrusts, the clamp of the corrections and the seven outputs
VtolOutputs(v, a, chi_cmd, delta_a) ==
    [d_chi_r |-> ClampCorrection(a.d_chi_r),
     d_chi_l |-> ClampCorrection(a.d_chi_l),
     outputs |->
        VtolWrite(<<RotorThrust(v[0], v[1], a.d_chi_r),
                    RotorThrust(v[2], v[3], a.d_chi_r),
                    RotorThrust(v[4], v[5], a.d_chi_l),
                    RotorThrust(v[6], v[7], a.d_chi_l)>>,
                  chi_cmd + ClampCorrection(a.d_chi_r),
                  chi_cmd + ClampCorrection(a.d_chi_l),
                  delta_a)]

VtolResult(in, sf, a, o) ==
    [outputs    |-> o.outputs,
     d_chi_r    |-> o.d_chi_r,
     d_chi_l    |-> o.d_chi_l,
     d_chi_r_raw |-> a.d_chi_r,
     d_chi_l_raw |-> a.d_chi_l,
     scale      |-> sf.scale,
     chi_cmd    |-> in.chi_cmd,
     L          |-> sf.L,
     N          |-> sf.N]

VtolStage4(in, sf, v, a) ==
    VtolResult(in, sf, a, VtolOutputs(v, a, in.chi_cmd, sf.delta_a))

VtolStage3(in, sf, v) == VtolStage4(in, sf, v, VtolAngles(v, in.T))

VtolStage2(in, sf, c_chi, s_chi, c_2chi, s_2chi) ==
    VtolStage3(in, sf,
               VtolV(in.T, sf.L, sf.M, sf.N, c_chi, s_chi, c_2chi, s_2chi))

\* the sines and cosines of the tilt command
VtolStage1(in) ==
    VtolStage2(in, VtolSurfaces(in), cosf(in.chi_cmd), sinf(in.chi_cmd),
               cosf(2 * in.chi_cmd), sinf(2 * in.chi_cmd))

\* mix_vtol on the control inputs ctl: the seven outputs it writes, and the
\* intermediate values d_chi_r, d_chi_l (after and before the clamp), the
\* speed-ramp factor, the tilt command and the residual roll and yaw moments
mix_vtol(ctl) == VtolStage1(VtolInputs(ctl))

\* ------------------------------------------------------------------------
\* The mixer instance and its constructors
\* ------------------------------------------------------------------------

NoMixer == [rotor_count |-> 0]

\* _delta_out_max and _saturation_status of a fresh instance
DefaultDeltaOutMax == 0

DefaultSaturationStatus == {}

\* What _idle_speed holds while the body of the rotor-table constructor
\* runs: the class declaration fixes it, this file does not.
PreBodyIdleSpeed == {0, -U}

\* MultirotorMixer(control_cb, cb_handle, rotors, rotor_count); pre is the
\* value of _idle_speed at that point
MultirotorMixerRotors(rotors, rotor_count, pre) ==
    [rotor_count       |-> rotor_count,
     rotors            |-> rotors,
     roll_scale        |-> U,
     pitch_scale       |-> U,
     yaw_scale         |-> U,
     idle_speed        |-> pre,
     delta_out_max     |-> DefaultDeltaOutMax,
     saturation_status |-> DefaultSaturationStatus,
     outputs_prev      |-> [i \in 0 .. rotor_count - 1 |-> pre]]

\* the geometry catalog: _config_key, _config_index, _config_rotor_count
config_key == <<"4x">>

config_index == <<config_quad_x>>

config_rotor_count == <<4>>

\* MultirotorGeometry::MAX_GEOMETRY, as a 1-based catalog position
MAX_GEOMETRY == Len(config_key) + 1

\* the idle speed shifted to the output range: -1.0f + idle_speed * 2.0f
ShiftIdleSpeed(idle_speed) == -U + idle_speed * 2

\* MultirotorMixer(control_cb, cb_handle, geometry, roll_scale, pitch_scale,
\* yaw_scale, idle_speed): the delegated constructor runs first, then the body
MultirotorMixerGeometry(geometry, roll_scale, pitch_scale, yaw_scale, idle_speed, pre) ==
    [MultirotorMixerRotors(config_index[geometry],
                           config_rotor_count[geometry], pre)
        EXCEPT !.roll_scale  = roll_scale,
               !.pitch_scale = pitch_scale,
               !.yaw_scale   = yaw_scale,
               !.idle_speed  = ShiftIdleSpeed(idle_speed)]

\* ------------------------------------------------------------------------
\* from_text.  A buffer is a sequence of one-character strings; position p
\* of the sequence is the byte buf[p - 1].
\* ------------------------------------------------------------------------

NL == "\n"

IsSpace(c) == c \in {" ", NL, "\t", "\r"}

Digits == <<"0", "1", "2", "3", "4", "5", "6", "7", "8", "9">>

IsDigit(c) == \E d \in 1 .. 10 : Digits[d] = c

DigitVal(c) == (CHOOSE d \in 1 .. 10 : Digits[d] = c) - 1

\* Mixer::string_well_formed: the text of buflen bytes ends with a new line
string_well_formed(buf, buflen) ==
    buflen >= 1 /\ buflen <= Len(buf) /\ buf[buflen] = NL

\* Mixer::skipline: the position after the first new line within buflen bytes
\* and the length left after it, or found = FALSE and the length as it was
skipline(buf, buflen) ==
    LET ends == {p \in 1 .. buflen : p <= Len(buf) /\ buf[p] = NL}
    IN  IF ends = {} THEN [found |-> FALSE, buflen |-> buflen]
        ELSE [found |-> TRUE,
              buflen |-> buflen - (CHOOSE q \in ends : \A r \in ends : q <= r)]

\* the first position at or after p that holds no white space
RECURSIVE SkipSpace(_, _)
SkipSpace(buf, p) ==
    IF p <= Len(buf) /\ IsSpace(buf[p]) THEN SkipSpace(buf, p + 1) ELSE p

\* %7s: at most max characters up to white space, after white space
RECURSIVE WordEnd(_, _, _)
WordEnd(buf, p, max) ==
    IF max > 0 /\ p <= Len(buf) /\ ~IsSpace(buf[p])
      THEN WordEnd(buf, p + 1, max - 1)
      ELSE p

WordFrom(buf, q, max) ==
    [ok |-> WordEnd(buf, q, max) > q,
     word |-> SubSeq(buf, q, WordEnd(buf, q, max) - 1),
     next |-> WordEnd(buf, q, max)]

ScanWord(buf, p, max) == WordFrom(buf, SkipSpace(buf, p), max)

\* %d: white space, an optional sign, digits
RECURSIVE DigitsEnd(_, _)
DigitsEnd(buf, p) ==
    IF p <= Len(buf) /\ IsDigit(buf[p]) THEN DigitsEnd(buf, p + 1) ELSE p

RECURSIVE DigitsValue(_, _, _, _)
DigitsValue(buf, p, e, acc) ==
    IF p >= e THEN acc ELSE DigitsValue(buf, p + 1, e, acc * 10 + DigitVal(buf[p]))

\* the integer whose digits are at d .. e - 1
IntValue(buf, negative, d, e) ==
    [ok |-> e > d,
     val |-> IF negative THEN -DigitsValue(buf, d, e, 0)
             ELSE DigitsValue(buf, d, e, 0),
     next |-> e]

\* the integer at q, where the white space ends
IntFrom(buf, q) ==
    IF q <= Len(buf) /\ buf[q] \in {"-", "+"}
      THEN IntValue(buf, buf[q] = "-", q + 1, DigitsEnd(buf, q + 1))
      ELSE IntValue(buf, FALSE, q, DigitsEnd(buf, q))

ScanInt(buf, p) == IntFrom(buf, SkipSpace(buf, p))

\* sscanf(buf, "R: %7s %d %d %d %d%n", ...): the number of conversions made,
\* and geomname, s[0..3] and used as far as they were stored
GEOMNAME_MAX == 7

ScanNone == [count |-> 0, geomname |-> <<>>, s |-> <<>>, used |-> 0]

\* the %d conversions and %n: s the integers stored so far, p the position
\* the scan has reached, i the conversion attempted there
RECURSIVE ScanInts(_, _, _, _), ScanStore(_, _, _, _)
ScanInts(buf, geomname, s, p) ==
    IF Len(s) = 4
      THEN [count |-> 5, geomname |-> geomname, s |-> s, used |-> p - 1]
      ELSE ScanStore(buf, geomname, s, ScanInt(buf, p))

ScanStore(buf, geomname, s, i) ==
    IF ~i.ok
      THEN [count |-> 1 + Len(s), geomname |-> geomname, s |-> s, used |-> 0]
      ELSE ScanInts(buf, geomname, Append(s, i.val), i.next)

\* the conversions after %7s made w
ScanAfterWord(buf, w) ==
    IF ~w.ok THEN ScanNone ELSE ScanInts(buf, w.word, <<>>, w.next)

sscanf_R(buf) ==
    IF ~(Len(buf) >= 2 /\ buf[1] = "R" /\ buf[2] = ":") THEN ScanNone
    ELSE ScanAfterWord(buf, ScanWord(buf, 3, GEOMNAME_MAX))

\* a catalog key as a character sequence
KeyChars(k) == CASE k = "4x" -> <<"4", "x">>

\* the catalog lookup: the first position whose key is geomname, or
\* MAX_GEOMETRY
LookupGeometry(geomname) ==
    LET hits == {g \in 1 .. Len(config_key) : KeyChars(config_key[g]) = geomname}
    IN  IF hits = {} THEN MAX_GEOMETRY
        ELSE CHOOSE g \in hits : \A h \in hits : g <= h

\* from_text(control_cb, cb_handle, buf, buflen): the mixer made (NoMixer for
\* nullptr), the caller's buflen afterwards, and the failure met
ParseFailure(why, buflen) == [mixer |-> NoMixer, buflen |-> buflen, why |-> why]

\* the geometry lookup and the construction, after the line was skipped
FromGeometry(sc, geometry, buflen, pre) ==
    IF geometry = MAX_GEOMETRY THEN ParseFailure("geometry", buflen)
    ELSE [mixer  |-> MultirotorMixerGeometry(geometry, sc.s[1], sc.s[2],
                                             sc.s[3], sc.s[4], pre),
          buflen |-> buflen,
          why    |-> "none"]

\* buf = skipline(buf, buflen) and what follows it
FromLine(sc, sk, pre) ==
    IF ~sk.found THEN ParseFailure("incomplete", sk.buflen)
    ELSE FromGeometry(sc, LookupGeometry(sc.geomname), sk.buflen, pre)

\* the checks on what sscanf returned
FromScan(buf, buflen, sc, pre) ==
    IF sc.count # 5 THEN ParseFailure("tokens", buflen)
    ELSE IF sc.used > buflen THEN ParseFailure("overflow", buflen)
    ELSE FromLine(sc, skipline(buf, buflen), pre)

from_text(buf, buflen, pre) ==
    IF ~string_well_formed(buf, buflen) THEN ParseFailure("unterminated", buflen)
    ELSE FromScan(buf, buflen, sscanf_R(buf), pre)

\* get_control(0, 0 .. 5): roll, pitch and yaw moments, thrust, tilt command,
\* airspeed
Controls(l, m, n, t, chi, airspd) ==
    [i \in 0 .. 5 |->
        CASE i = 0 -> l [] i = 1 -> m [] i = 2 -> n
          [] i = 3 -> t [] i = 4 -> chi [] i = 5 -> airspd]

\* hover; yaw demand at rest; a transition with all axes loaded
MixControls ==
    {Controls(0, 0, 0, 5000, 0, U),
     Controls(0, 0, 5000, 5000, 0, 0),
     Controls(5000, -5000, 5000, U, 5000, 2500)}

\* mix_vtol tabulated on the control inputs of a cycle
VtolOnControls == Array([ctl \in MixControls |-> mix_vtol(ctl)])

\* ------------------------------------------------------------------------
\* MixEntryPoint and SlewRateLimiter: mix
\* ------------------------------------------------------------------------

\* the capacity check of mix
InsufficientSpace(space, rotor_count) == space < rotor_count

\* a cycle that leaves the status as it finds it
KeepSaturationStatus(value) == value

\* _saturation_status.value = 0
ClearSaturationStatus(value) == {}

\* the check of one tilt output against the slew rate limit, entered with
\* _delta_out_max > 0: the output given the allocated value out and the
\* value prev read from _outputs_prev
SlewLimit(out, prev, delta_out_max) ==
    LET delta_out == out - prev
    IN  IF delta_out > delta_out_max THEN prev + delta_out_max
        ELSE IF delta_out < -delta_out_max THEN prev - delta_out_max
        ELSE out

\* a cycle that leaves the ceiling in place
KeepDeltaOutMax(delta_out_max) == delta_out_max

\* _delta_out_max = 0.0f at the end of a cycle
ConsumeDeltaOutMax(delta_out_max) == 0

\* what mix returns after a cycle; mix_vtol writes outputs[0 .. 6]
MixOutputCount == 7

LeftTilt == 4

RightTilt == 5

\* The snapshot is the array _outputs_prev[0 .. _rotor_count - 1]; an index
\* at or past _rotor_count is memory beyond it.
InSnapshot(m, i) == i < m.rotor_count

\* mix(outputs, space) with control inputs ctl.  rd[i] is what a read of
\* _outputs_prev[i] yields, beyond the memory past the snapshot.  The result
\* is the instance and that memory afterwards, the count returned, the
\* buffer slots written, and the allocated (raw) and written tilt outputs.
MixStore(m, beyond, raw, outputs) ==
    [mixer |-> [m EXCEPT !.saturation_status =
                             ClearSaturationStatus(m.saturation_status),
                         !.outputs_prev =
                             [i \in DOMAIN m.outputs_prev |->
                                 IF i \in {LeftTilt, RightTilt}
                                   THEN outputs[i] ELSE m.outputs_prev[i]],
                         !.delta_out_max = ConsumeDeltaOutMax(m.delta_out_max)],
     beyond |-> [i \in DOMAIN beyond |->
                    IF InSnapshot(m, i) THEN beyond[i] ELSE outputs[i]],
     ret |-> MixOutputCount,
     written |-> 0 .. 6,
     outputs |-> outputs,
     raw |-> raw,
     prev_index |-> {LeftTilt, RightTilt}]

MixLimit(m, beyond, raw, rd) ==
    MixStore(m, beyond, raw,
             Array([i \in 0 .. 6 |->
                 IF i \in {LeftTilt, RightTilt} /\ m.delta_out_max > 0
                   THEN SlewLimit(raw[i], rd[i], m.delta_out_max)
                   ELSE raw[i]]))

mix(m, beyond, space, ctl, rd) ==
    IF InsufficientSpace(space, m.rotor_count)
      THEN [mixer |-> m, beyond |-> beyond, ret |-> 0, written |-> {},
            outputs |-> [i \in {} |-> 0], raw |-> [i \in {} |-> 0],
            prev_index |-> {}]
      ELSE MixLimit(m, beyond, VtolOnControls[ctl].outputs, rd)

\* set_max_delta_out_once(delta_out_max): the caller's supply of the
\* per-cycle slew ceiling
set_max_delta_out_once(m, delta_out_max) ==
    [m EXCEPT !.delta_out_max = delta_out_max]

\* ------------------------------------------------------------------------
\* Inputs: the texts handed to from_text, the rotor tables handed to the
\* constructor, the control inputs, capacities and slew ceilings of a cycle
\* ------------------------------------------------------------------------

\* idle speed 0.2
TextIdleFifth ==
    <<"R", ":", " ", "4", "x", " ", "1", "0", "0", "0", "0", " ", "1", "0",
      "0", "0", "0", " ", "1", "0", "0", "0", "0", " ", "2", "0", "0", "0",
      NL>>

\* a key the catalog does not hold
TextBadKey ==
    <<"R", ":", " ", "9", "z", " ", "1", "0", "0", "0", "0", " ", "1", "0",
      "0", "0", "0", " ", "1", "0", "0", "0", "0", " ", "5", "0", "0", "0",
      NL>>

\* the texts from_text is tried on
ParseTexts ==
    {TextIdleFifth, TextBadKey,
     \* the descriptor of the spec's example: idle speed 0.5
     <<"R", ":", " ", "4", "x", " ", "1", "0", "0", "0", "0", " ", "1", "0",
       "0", "0", "0", " ", "1", "0", "0", "0", "0", " ", "5", "0", "0", "0",
       NL>>,
     \* idle speed 0, and a further line in the buffer
     <<"R", ":", " ", "4", "x", " ", "1", " ", "1", " ", "1", " ", "0", NL,
       "Z", ":", NL>>,
     \* two of the four integers
     <<"R", ":", " ", "4", "x", " ", "1", "0", "0", "0", "0", " ", "1", "0",
       "0", "0", "0", NL>>,
     \* not an R: line
     <<"M", ":", " ", "0", " ", "1", " ", "1", NL>>,
     \* a key the catalog does not hold, and a further line
     <<"R", ":", " ", "6", "x", " ", "1", " ", "1", " ", "1", " ", "0", NL,
       "Z", ":", NL>>,
     \* a descriptor whose first new line comes before its tokens
     <<"R", ":", NL, "4", "x", " ", "1", " ", "1", " ", "1", " ", "2", "0",
       "0", "0", NL>>}

\* the texts a mixer's life starts from in Spec, each with its full length
LifeTexts == {TextIdleFifth, TextBadKey}

\* a caller-supplied rotor table of n rotors
TestRotors(n) ==
    Array([i \in 0 .. n - 1 |->
              Rotor(IF i % 2 = 0 THEN -5000 ELSE 5000,
                    IF i % 4 < 2 THEN 5000 ELSE -5000,
                    IF i % 2 = 0 THEN U ELSE -U,
                    U)])

\* the rotor counts of the tables handed to the constructor directly
TableCounts == {6, 7}

\* the capacities mix is called with
SpaceSet == {3, 6, 7}

\* the slew ceilings the caller supplies
DeltaSet == {-300, 300, 20000}

\* what a read past the snapshot may find besides what was last put there
BeyondValues == {4000}

\* the demands the multirotor policies are run on: roll, pitch, yaw, thrust
AirmodeSet ==
    {<<"rp", 8000, 0, 0, 9000>>,
     <<"rpy", 0, 0, 8000, 2000>>,
     <<"disabled", 0, -8000, 0, 1000>>}

\* the number of mix calls of a run
MaxCycles == 2

\* ------------------------------------------------------------------------
\* State
\* ------------------------------------------------------------------------

VARIABLES
    mixer,   \* the MultirotorMixer instance, NoMixer before construction
    beyond,  \* the memory past _outputs_prev that indices 4 and 5 may reach
    parse,   \* from_text's caller: the text, its buflen, the outcome
    caller,  \* the last call on the instance and what the caller saw of it
    desat,   \* an application of the desaturation engine to given arrays
    vtol     \* an application of mix_vtol to given control inputs

vars == <<mixer, beyond, parse, caller, desat, vtol>>

NoParse == [buf |-> <<>>, buflen0 |-> 0, buflen |-> 0, result |-> "none",
            why |-> "none"]

NoOutputs == [i \in 0 .. 6 |-> 0]

NoCall ==
    [op |-> "none", space |-> 0, ret |-> 0, written |-> {},
     outputs |-> NoOutputs, raw |-> NoOutputs, prev_index |-> {},
     dmax |-> 0, flags_before |-> {},
     \* set_max_delta_out_once was called since the last mix call; since the
     \* last mix call that passed the capacity check
     supplied |-> FALSE, supplied_ok |-> FALSE,
     \* the same two, as they stood when the last mix call was made
     fresh |-> FALSE, fresh_ok |-> FALSE,
     \* a cycle passed the capacity check before the last call; its tilt outputs
     had_cycle |-> FALSE, cycle_tilt |-> <<0, 0>>,
     \* the same, as they stood when the last mix call was made
     had_prev |-> FALSE, prev_tilt |-> <<0, 0>>,
     cycles |-> 0,
     \* the policy the last call ran and the columns it called
     \* minimize_saturation against, in call order
     policy |-> "none", calls |-> <<>>]

\* the caller's record once a call other than mix follows: what it saw of the
\* last mix call is dropped, what it keeps count of stays
Forget(c) ==
    [NoCall EXCEPT !.supplied = c.supplied, !.supplied_ok = c.supplied_ok,
                   !.had_cycle = c.had_cycle, !.cycle_tilt = c.cycle_tilt,
                   !.cycles = c.cycles]

NoDesat == [n |-> 0, done |-> FALSE]

NoVtol == [done |-> FALSE]

\* ------------------------------------------------------------------------
\* The life of an instance: Spec
\* ------------------------------------------------------------------------

Init ==
    /\ mixer = NoMixer
    /\ beyond = [i \in {LeftTilt, RightTilt} |-> 0]
    /\ \E t \in LifeTexts :
          parse = [buf |-> t, buflen0 |-> Len(t), buflen |-> Len(t),
                   result |-> "pending", why |-> "none"]
    /\ caller = NoCall
    /\ desat = NoDesat
    /\ vtol = NoVtol

\* the caller hands its text to from_text
FromText ==
    /\ mixer.rotor_count = 0
    /\ parse.result = "pending"
    /\ \E pre \in PreBodyIdleSpeed :
          \E r \in {from_text(parse.buf, parse.buflen, pre)} :
              /\ mixer' = r.mixer
              /\ parse' = [parse EXCEPT
                              !.buflen = r.buflen,
                              !.why = r.why,
                              !.result = IF r.mixer.rotor_count = 0
                                           THEN "null" ELSE "mixer"]
    /\ caller' = [caller EXCEPT !.op = "from_text"]
    /\ UNCHANGED <<beyond, desat, vtol>>

\* the caller constructs an instance on a rotor table of its own
Construct ==
    /\ mixer.rotor_count = 0
    /\ \E n \in TableCounts, pre \in PreBodyIdleSpeed :
          mixer' = MultirotorMixerRotors(TestRotors(n), n, pre)
    /\ caller' = [caller EXCEPT !.op = "construct"]
    /\ UNCHANGED <<beyond, parse, desat, vtol>>

SetMaxDeltaOutOnce ==
    /\ mixer.rotor_count > 0
    /\ \E d \in DeltaSet : mixer' = set_max_delta_out_once(mixer, d)
    /\ caller' = [Forget(caller) EXCEPT !.op = "set_max_delta_out_once",
                                        !.supplied = TRUE, !.supplied_ok = TRUE]
    /\ UNCHANGED <<beyond, parse, desat, vtol>>

\* what a read of _outputs_prev[i] may yield
ReadValues(i) ==
    IF InSnapshot(mixer, i) THEN {mixer.outputs_prev[i]}
    ELSE BeyondValues \cup {beyond[i]}

\* one mix call
Mix ==
    /\ mixer.rotor_count > 0
    /\ caller.cycles < MaxCycles
    /\ \E space \in SpaceSet, ctl \in MixControls,
          v4 \in ReadValues(LeftTilt), v5 \in ReadValues(RightTilt) :
          \E r \in {mix(mixer, beyond, space, ctl,
                        [i \in {LeftTilt, RightTilt} |->
                            IF i = LeftTilt THEN v4 ELSE v5])} :
          \E ok \in {r.ret # 0} :
              /\ mixer' = r.mixer
              /\ beyond' = r.beyond
              /\ caller' =
                    [op |-> "mix", space |-> space, ret |-> r.ret,
                     written |-> r.written,
                     outputs |-> IF ok THEN r.outputs ELSE NoOutputs,
                     raw |-> IF ok THEN r.raw ELSE NoOutputs,
                     prev_index |-> r.prev_index,
                     dmax |-> mixer.delta_out_max,
                     flags_before |-> mixer.saturation_status,
                     supplied |-> FALSE,
                     supplied_ok |-> IF ok THEN FALSE ELSE caller.supplied_ok,
                     fresh |-> caller.supplied,
                     fresh_ok |-> caller.supplied_ok,
                     had_cycle |-> caller.had_cycle \/ ok,
                     cycle_tilt |-> IF ok
                                      THEN <<r.outputs[LeftTilt], r.outputs[RightTilt]>>
                                      ELSE caller.cycle_tilt,
                     had_prev |-> caller.had_cycle,
                     prev_tilt |-> caller.cycle_tilt,
                     cycles |-> caller.cycles + 1,
                     policy |-> "none",
                     calls |-> <<>>]
    /\ UNCHANGED <<parse, desat, vtol>>

\* one of the multirotor policies on demand a = <<policy, roll, pitch, yaw,
\* thrust>>
RunPolicy(n, rotors, a, sat_status) ==
    CASE a[1] = "rp" ->
            mix_airmode_rp(n, rotors, a[2], a[3], a[4], a[5], sat_status)
      [] a[1] = "rpy" ->
            mix_airmode_rpy(n, rotors, a[2], a[3], a[4], a[5], sat_status)
      [] a[1] = "disabled" ->
            mix_airmode_disabled(n, rotors, a[2], a[3], a[4], a[5], sat_status)

\* what the policies leave (the saturation status among it), tabulated on
\* the rotor tables, the demands and the status they start from (only
\* motor_pos and motor_neg are ever set)
StatusAfterPolicy ==
    Array([rt \in {config_quad_x} \cup {TestRotors(n) : n \in TableCounts} |->
        Array([a \in AirmodeSet |->
            Array([f \in SUBSET {"motor_pos", "motor_neg"} |->
                RunPolicy(Cardinality(DOMAIN rt), rt, a, f)])])])

\* one of the multirotor policies run on the instance's rotor table
MixAirmode ==
    /\ mixer.rotor_count > 0
    /\ \E a \in AirmodeSet :
          \E r \in {StatusAfterPolicy[mixer.rotors][a][mixer.saturation_status]} :
              /\ mixer' = [mixer EXCEPT !.saturation_status = r.flags]
              /\ caller' = [Forget(caller) EXCEPT !.op = "mix_airmode",
                                                  !.policy = a[1],
                                                  !.calls = r.calls]
    /\ UNCHANGED <<beyond, parse, desat, vtol>>

Next == FromText \/ Construct \/ SetMaxDeltaOutOnce \/ Mix \/ MixAirmode

Spec == Init /\ [][Next]_vars

\* ------------------------------------------------------------------------
\* from_text on every text and every buflen within it: SpecParse
\* ------------------------------------------------------------------------

InitParse ==
    /\ mixer = NoMixer
    /\ beyond = [i \in {LeftTilt, RightTilt} |-> 0]
    /\ \E t \in ParseTexts : \E len \in 1 .. Len(t) :
          parse = [buf |-> t, buflen0 |-> len, buflen |-> len,
                   result |-> "pending", why |-> "none"]
    /\ caller = NoCall
    /\ desat = NoDesat
    /\ vtol = NoVtol

SpecParse == InitParse /\ [][FromText]_vars

\* ------------------------------------------------------------------------
\* The desaturation engine on given arrays: SpecDesat
\* ------------------------------------------------------------------------

\* the largest rotor count of the arrays
MaxRotors == 2

\* direction coefficients and outputs: halves and tenths, on which the
\* gains and the corrections are whole units
DirSet == {-U, 0, 5000, U}

OutSet == {-2000, 2000, U, 15000}

\* the bounds of the call sites: the default pair and the yaw step's
BoundSet == {<<DefaultMinOutput, DefaultMaxOutput>>, <<0, YawMaxOutput>>}

InitDesat ==
    /\ mixer = NoMixer
    /\ beyond = [i \in {LeftTilt, RightTilt} |-> 0]
    /\ parse = NoParse
    /\ caller = NoCall
    /\ \E n \in 1 .. MaxRotors :
          \E dv \in [0 .. n - 1 -> DirSet], o \in [0 .. n - 1 -> OutSet],
             bd \in BoundSet, ro \in BOOLEAN :
             desat = [n |-> n, done |-> FALSE, desaturation_vector |-> dv,
                      outputs |-> o, min_output |-> bd[1], max_output |-> bd[2],
                      reduce_only |-> ro]
    /\ vtol = NoVtol

\* compute_desaturation_gain and minimize_saturation on the arrays
MinimizeSaturation ==
    /\ desat.n > 0
    /\ ~desat.done
    /\ desat' =
          [n |-> desat.n, done |-> TRUE,
           desaturation_vector |-> desat.desaturation_vector,
           outputs |-> desat.outputs,
           min_output |-> desat.min_output, max_output |-> desat.max_output,
           reduce_only |-> desat.reduce_only,
           gain |-> compute_desaturation_gain(
                        desat.n, desat.desaturation_vector, desat.outputs, {},
                        desat.min_output, desat.max_output).gain,
           r |-> minimize_saturation(
                     desat.n, desat.desaturation_vector, desat.outputs, {},
                     desat.min_output, desat.max_output, desat.reduce_only)]
    /\ UNCHANGED <<mixer, beyond, parse, caller, vtol>>

SpecDesat == InitDesat /\ [][MinimizeSaturation]_vars

\* ------------------------------------------------------------------------
\* mix_vtol on given control inputs: SpecVtol
\* ------------------------------------------------------------------------

\* normalized demands: roll, pitch, yaw, thrust, tilt command, airspeed
\* (0.25 is 10 m/s, where the speed ramp has reached 1)
VtolControls ==
    {Controls(l, m, n, t, chi, airspd) :
        l \in {0, 5000}, m \in {-U, -5000, 0, 5000, U}, n \in {-5000, 0},
        t \in {0, 2500, 5000, U}, chi \in {0, 5000}, airspd \in {0, 2500, U}}

InitVtol ==
    /\ mixer = NoMixer
    /\ beyond = [i \in {LeftTilt, RightTilt} |-> 0]
    /\ parse = NoParse
    /\ caller = NoCall
    /\ desat = NoDesat
    /\ \E ctl \in VtolControls : vtol = [done |-> FALSE, ctl |-> ctl]

MixVtol ==
    /\ ~vtol.done
    /\ "ctl" \in DOMAIN vtol
    /\ vtol' = [done |-> TRUE, ctl |-> vtol.ctl, r |-> mix_vtol(vtol.ctl)]
    /\ UNCHANGED <<mixer, beyond, parse, caller, desat>>

SpecVtol == InitVtol /\ [][MixVtol]_vars

\* ------------------------------------------------------------------------
\* Properties of mix (Spec)
\* ------------------------------------------------------------------------

TiltIndices == {LeftTilt, RightTilt}

\* the last call was a mix call that passed the capacity check
CycleDone == caller.op = "mix" /\ caller.ret # 0

\* the tilt outputs written are the allocated ones
Unlimited == \A i \in TiltIndices : caller.outputs[i] = caller.raw[i]

\* the tilt output of the cycle before, by output index
PrevTilt(i) == IF i = LeftTilt THEN caller.prev_tilt[1] ELSE caller.prev_tilt[2]

\* C1: a mix call whose capacity is below the seven outputs of the
\* allocation returns 0 and writes no slot; no mix call returns more than
\* its capacity or writes a slot at or past it.
C1_CapacityRespected ==
    caller.op = "mix" =>
        /\ caller.space < MixOutputCount =>
               (caller.ret = 0 /\ caller.written = {})
        /\ caller.ret <= caller.space
        /\ \A i \in caller.written : i < caller.space

\* C2 as stated: after every mix call, whatever it returns, no flag that
\* was set before the call is still set.
C2_EveryCallClears ==
    caller.op = "mix" => mixer.saturation_status \cap caller.flags_before = {}

\* C2: after every mix call that passes the capacity check no saturation
\* flag is set, whatever flags were set before it.
C2_CycleClears == CycleDone => mixer.saturation_status = {}

C2_Witness == CycleDone /\ caller.flags_before # {}

\* C3: in a cycle with a positive ceiling each tilt output is the allocated
\* value if that is within the ceiling of the previous cycle's output, and
\* the previous output moved by exactly the ceiling towards it otherwise;
\* with a ceiling of 0 or less it is the allocated value.
C3_SlewLimited ==
    (CycleDone /\ caller.had_prev) =>
        \A i \in TiltIndices :
            IF caller.dmax > 0
              THEN IF caller.raw[i] - PrevTilt(i) > caller.dmax
                     THEN caller.outputs[i] = PrevTilt(i) + caller.dmax
                   ELSE IF caller.raw[i] - PrevTilt(i) < -caller.dmax
                     THEN caller.outputs[i] = PrevTilt(i) - caller.dmax
                   ELSE caller.outputs[i] = caller.raw[i]
              ELSE caller.outputs[i] = caller.raw[i]

\* C4 as stated: a cycle not immediately preceded by a supply of the ceiling
\* writes the allocated tilt outputs, whatever the mix calls before returned.
C4_NextCallOnly == (CycleDone /\ ~caller.fresh) => Unlimited

\* C4: a cycle writes the allocated tilt outputs unless the ceiling was
\* supplied since the last mix call that passed the capacity check.
C4_NextCycleOnly == (CycleDone /\ ~caller.fresh_ok) => Unlimited

C4_Witness ==
    /\ CycleDone
    /\ ~caller.fresh_ok
    /\ caller.had_prev
    /\ \E i \in TiltIndices : caller.raw[i] # PrevTilt(i)

\* C12 as stated: mix_airmode_rpy calls minimize_saturation exactly once,
\* against the thrust column, and against no other column.
C12_ThrustOnly ==
    (caller.op = "mix_airmode" /\ caller.policy = "rpy") =>
        caller.calls = <<"thrust">>

\* C12: mix_airmode_rpy calls minimize_saturation exactly twice: first
\* against the thrust column, then against the yaw column.
C12_ThrustThenYaw ==
    (caller.op = "mix_airmode" /\ caller.policy = "rpy") =>
        caller.calls = <<"thrust", "yaw">>

C12_Witness ==
    /\ caller.op = "mix_airmode"
    /\ caller.policy = "rpy"
    /\ Len(caller.calls) = 2
    /\ mixer.saturation_status # {}

\* C13: in every mix call that passes the capacity check, every index at
\* which mix reads or writes the previous-output snapshot is below the
\* length the snapshot was allocated with, the instance's rotor count.
C13_SnapshotIndicesInRange ==
    CycleDone => \A i \in caller.prev_index : InSnapshot(mixer, i)

\* ------------------------------------------------------------------------
\* Properties of the desaturation engine (SpecDesat)
\* ------------------------------------------------------------------------

Slots == 0 .. desat.n - 1

InBounds(o) == desat.min_output <= o /\ o <= desat.max_output

\* actuator i alone is above max_output, with a direction coefficient
OnlyAbove(i) ==
    /\ desat.outputs[i] > desat.max_output
    /\ desat.desaturation_vector[i] # 0
    /\ \A j \in Slots \ {i} : InBounds(desat.outputs[j])

\* the gain that brings actuator i to max_output
GainToMax(i) ==
    Div(desat.max_output - desat.outputs[i], desat.desaturation_vector[i])

\* that gain takes no other actuator out of bounds
OthersStayInBounds(i) ==
    \A j \in Slots \ {i} :
        InBounds(desat.outputs[j] + Mul(GainToMax(i), desat.desaturation_vector[j]))

\* C5: on outputs that all lie within the bounds compute_desaturation_gain
\* returns 0 and minimize_saturation leaves every output as it was, with
\* reduce_only true or false.
C5_InBoundsUntouched ==
    (desat.done /\ \A i \in Slots : InBounds(desat.outputs[i])) =>
        (desat.gain = 0 /\ desat.r.outputs = desat.outputs)

C5_Witness ==
    /\ desat.done
    /\ desat.n >= 2
    /\ \A i \in Slots : InBounds(desat.outputs[i])
    /\ \E i \in Slots : desat.outputs[i] = desat.max_output
    /\ \A i \in Slots : desat.desaturation_vector[i] # 0
    /\ ~desat.reduce_only

\* C6 as stated: when one actuator alone is above max_output, with a
\* direction coefficient, minimize_saturation with reduce_only false leaves
\* it at max_output.
C6_AlwaysAtMax ==
    (desat.done /\ ~desat.reduce_only) =>
        \A i \in Slots : OnlyAbove(i) => desat.r.outputs[i] = desat.max_output

\* C6: when one actuator alone is above max_output, with a direction
\* coefficient, and the gain that brings it to max_output takes no other
\* actuator out of bounds, minimize_saturation with reduce_only false
\* leaves it at max_output.
C6_AtMaxIfOthersStay ==
    (desat.done /\ ~desat.reduce_only) =>
        \A i \in Slots :
            (OnlyAbove(i) /\ OthersStayInBounds(i)) =>
                desat.r.outputs[i] = desat.max_output

C6_Witness ==
    /\ desat.done
    /\ ~desat.reduce_only
    /\ \E i \in Slots :
          /\ OnlyAbove(i)
          /\ OthersStayInBounds(i)
          /\ \E j \in Slots \ {i} :
                desat.r.outputs[j] # desat.outputs[j]

\* C7: with reduce_only true and a first gain above 0, minimize_saturation
\* leaves every output as it was.
C7_ReduceOnlyNoOp ==
    (desat.done /\ desat.reduce_only /\ desat.r.k1 > 0) =>
        (desat.r.outputs = desat.outputs /\ ~desat.r.applied)

C7_Witness ==
    /\ desat.done
    /\ desat.reduce_only
    /\ desat.r.k1 > 0
    /\ desat.n >= 2
    /\ \A i \in Slots : desat.desaturation_vector[i] # 0

\* the gain minimize_saturation applied along its direction vector: k1 + k2,
\* or 0 when it returned before the corrections
AppliedGain == IF desat.r.applied THEN desat.r.k1 + desat.r.k2 ELSE 0

\* C11: with reduce_only true the gain minimize_saturation applies along
\* its direction vector (k1 plus the half-weighted k2, or 0 when it applies
\* nothing) is at most 0, so no output with a positive coefficient (the
\* thrust column of the reduce steps of mix_airmode_disabled and mix_yaw)
\* is raised.
C11_ReduceOnlyNeverBoosts ==
    (desat.done /\ desat.reduce_only) =>
        /\ AppliedGain <= 0
        /\ \A i \in Slots :
              desat.desaturation_vector[i] > 0 =>
                  desat.r.outputs[i] <= desat.outputs[i]

C11_Witness ==
    /\ desat.done
    /\ desat.reduce_only
    /\ desat.r.applied
    /\ desat.r.k1 < 0
    /\ desat.r.k2 > 0
    /\ \A i \in Slots : desat.desaturation_vector[i] > 0

\* ------------------------------------------------------------------------
\* Properties of from_text and the constructors (SpecParse)
\* ------------------------------------------------------------------------

\* C8: when from_text returns no mixer, the caller's buflen is what it was.
C8_FailureKeepsCursor ==
    parse.result = "null" => parse.buflen = parse.buflen0

\* C10: right after the geometry-keyed constructor, every entry of the
\* previous-output snapshot is the instance's _idle_speed.
C10_SnapshotIsIdleSpeed ==
    parse.result = "mixer" =>
        \A i \in DOMAIN mixer.outputs_prev :
            mixer.outputs_prev[i] = mixer.idle_speed

\* ------------------------------------------------------------------------
\* Properties of mix_vtol (SpecVtol)
\* ------------------------------------------------------------------------

\* full airspeed authority, no tilt command, no residual roll or yaw moment
LevelAndTrimmed ==
    /\ vtol.done
    /\ vtol.r.scale = U
    /\ vtol.r.chi_cmd = 0
    /\ vtol.r.L = 0
    /\ vtol.r.N = 0

\* C9: at full airspeed authority, with tilt command 0 and residual roll
\* and yaw moments 0, the right and left tilt-angle corrections are equal in
\* magnitude and opposite in sign, before the clamp and after it.
C9_OppositeCorrections ==
    LevelAndTrimmed =>
        /\ vtol.r.d_chi_r_raw = -vtol.r.d_chi_l_raw
        /\ vtol.r.d_chi_r = -vtol.r.d_chi_l

C9_Witness ==
    /\ LevelAndTrimmed
    /\ vtol.ctl[3] = U
    /\ vtol.ctl[1] # 0

=============================================================================
